---- MODULE Spec2Model ----
(***************************************************************************)
(* Model of the pharma-reg-monitor pipeline: the orchestrator              *)
(* run_all_checks_and_notify (src/src/manager.py), the four source         *)
(* adapters it calls (src/src/sources/*.py), the consolidator, the HTML    *)
(* generator and the email sender.                                         *)
(*                                                                         *)
(* Text is modelled as sequences of one-character strings, a date string   *)
(* as a record [fmt, day] (its textual format and the calendar day it      *)
(* denotes), an HTTP response as a record [kind, body].                    *)
(***************************************************************************)
EXTENDS Integers, Sequences, FiniteSets, TLC

\* ---------------------------------------------------------------- bounds
\* rows of a page in a run of the whole pipeline
MaxRows == 1
\* rows of a page handed to a parser or a filter taken alone
ParseRows == 2
\* candidates in the challenge of a landing page
MaxCandidates == 3

\* ------------------------------------------------------------- constants
Today == 20
DefaultDaysAbsent == 3
DefaultDaysInvalid == 7
max_retries == 3
backoff_factor == 5
EdqmColumns == 11
CdscoColumns == 7
FdaMinColumns == 5

\* The failure marker (Python None) and the outcome of an escaped exception.
\* Both are records, as every optional value of the model is.
None == [tag |-> "None"]
Raised == [tag |-> "Raised"]

\* ------------------------------------------------------------ generic
SeqsUpTo(S, n) == UNION {[1..k -> S] : k \in 0..n}

RECURSIVE SelectSeqOrd(_, _)
\* subsequence of s whose elements belong to the set K, order kept
SelectSeqOrd(s, K) ==
  IF s = <<>> THEN <<>>
  ELSE IF Head(s) \in K THEN <<Head(s)>> \o SelectSeqOrd(Tail(s), K)
       ELSE SelectSeqOrd(Tail(s), K)

RECURSIVE SumSeq(_)
SumSeq(s) == IF s = <<>> THEN 0 ELSE Head(s) + SumSeq(Tail(s))

EmptyMap == [k \in {} |-> None]

\* ------------------------------------------------------------ dates
\* A date string: fmt "ymd" is YYYY-MM-DD, "dmy" is DD/MM/YYYY, "mdy" is
\* MM/DD/YYYY, "bad" is text that is no date in any of these, "empty" is "".
DateStr(f, d) == [fmt |-> f, day |-> d]
BadDate == DateStr("bad", 0)
EmptyDate == DateStr("empty", 0)

\* datetime.strptime(s, fmtname): the parsed calendar day, or a ValueError
Strptime(s, f) ==
  IF s.fmt = f THEN [ok |-> TRUE, day |-> s.day] ELSE [ok |-> FALSE, day |-> 0]

\* date.strftime("%Y-%m-%d")
StrftimeYMD(day) == DateStr("ymd", day)

\* Python truthiness of a string
Truthy(s) == s # EmptyDate /\ s # None

\* ------------------------------------------------------------ text
RECURSIVE Split(_, _)
\* str.split(sep): the pieces between separators (always at least one piece)
Split(s, sep) ==
  IF s = <<>> THEN << <<>> >>
  ELSE LET rest == Split(Tail(s), sep) IN
       IF Head(s) = sep THEN << <<>> >> \o rest
       ELSE << <<Head(s)>> \o Head(rest) >> \o Tail(rest)

RECURSIVE LStrip(_)
LStrip(s) == IF s # <<>> /\ Head(s) = " " THEN LStrip(Tail(s)) ELSE s

RECURSIVE RStrip(_)
RStrip(s) ==
  IF s # <<>> /\ s[Len(s)] = " " THEN RStrip(SubSeq(s, 1, Len(s) - 1)) ELSE s

\* str.strip()
Strip(s) == RStrip(LStrip(s))

RECURSIVE StripNonEmpty(_)
\* [email.strip() for email in pieces if email.strip()]
StripNonEmpty(pieces) ==
  IF pieces = <<>> THEN <<>>
  ELSE LET e == Strip(Head(pieces)) IN
       IF e # <<>> THEN <<e>> \o StripNonEmpty(Tail(pieces))
       ELSE StripNonEmpty(Tail(pieces))

\* mutant: the pieces are taken as they are, blank ones included
ParseRecipients_KeepsBlanks(str) == Split(str, ",")

\* recipient_list of manager.py
ParseRecipients(str) == StripNonEmpty(Split(str, ","))

\* ------------------------------------------------------------ environment
\* DAYS_TO_CHECK: unset, the text of an integer, or text that int() rejects
DaysUnset == [kind |-> "unset", val |-> 0]
DaysInt(n) == [kind |-> "int", val |-> n]
DaysJunk == [kind |-> "junk", val |-> 0]
DaysEnvs == {DaysUnset, DaysInt(1), DaysInt(0), DaysJunk}

\* RECIPIENT_EMAILS: unset or a text
EnvText(t) == [tag |-> "text", text |-> t]
RecipientTexts ==
  {<<>>, <<",">>, <<" ">>, <<" ", ",", " ", ",">>, <<"a">>,
   <<" ", "a", ",", ",", "a", "a", " ">>}
RecipientEnvs == {None} \cup {EnvText(t) : t \in RecipientTexts}

\* int(os.environ.get("DAYS_TO_CHECK", "3")) with its except branch
ResolveDays(e) ==
  CASE e.kind = "unset" -> DefaultDaysAbsent
    [] e.kind = "int" -> e.val
    [] OTHER -> DefaultDaysInvalid

\* datetime.now(): calendar day and time of day (0 is midnight); a run
\* starts at some time after midnight
Nows == {[day |-> Today, tod |-> "10:30"]}

\* datetime.now() - timedelta(days=n) keeps the time of day
MinusDays(dt, n) == [day |-> dt.day - n, tod |-> dt.tod]

\* datetime.date()
DateOf(dt) == dt.day

\* ------------------------------------------------------------ HTTP
\* One HTTP exchange: a 2xx response with a body, or one of the failures
\* requests raises (timeout, connection error) or raise_for_status() raises
\* (non-2xx status).
FailKinds == {"timeout", "conn", "http"}
Ok(b) == [kind |-> "ok", body |-> b]
Fail(k) == [kind |-> k, body |-> None]
\* no exchange took place: the request was never issued
NoExchange == Fail("unsent")
EmptyBody == [tag |-> "empty"]

\* a parsed list of records, as opposed to the failure marker
List(rows) == [tag |-> "list", rows |-> rows]
\* a result package {"data": ..., "source_url": ...}
Package(data, url) == [tag |-> "pkg", data |-> data, source_url |-> url]

\* one executed stage of an adapter and how it ended: "ok", "Failure" (it
\* yielded the failure marker) or "raised" (an exception left the adapter)
St(name, outcome) == [stage |-> name, outcome |-> outcome]

\* what one adapter call did: the value returned (a package, None, or Raised
\* when an exception left it), the stages run, and the attempts and backoff
\* sleeps of its data fetch
Did(pkg, stages, attempts, sleeps) ==
  [pkg |-> pkg, stages |-> stages, attempts |-> attempts, sleeps |-> sleeps]

\* the days a sampled upstream row may carry: before, on and after the cutoff
SampleDays(d) == {Today - d - 1, Today - d, Today}

\* ------------------------------------------------------------ EDQM
EdqmRow(n, ds) == [ncells |-> n, issue_date_cep |-> ds]
EdqmRows(d) ==
  {EdqmRow(EdqmColumns, DateStr("dmy", x)) : x \in {Today - d - 1, Today}}
    \cup {EdqmRow(EdqmColumns, BadDate), EdqmRow(EdqmColumns, EmptyDate),
          EdqmRow(EdqmColumns - 1, DateStr("dmy", Today))}
EdqmPage(t, nr, tb, rows) ==
  [tag |-> "edqm", table |-> t, noResults |-> nr, tbody |-> tb, rows |-> rows]
\* the bodies with up to n rows in the table
EdqmPages(d, n) ==
  {EmptyBody} \cup {EdqmPage(FALSE, nr, FALSE, <<>>) : nr \in BOOLEAN}
    \cup {EdqmPage(TRUE, FALSE, FALSE, <<>>)}
    \cup {EdqmPage(TRUE, FALSE, TRUE, r) : r \in SeqsUpTo(EdqmRows(d), n)}
EdqmBodies(d) == EdqmPages(d, MaxRows)
EdqmResponses(d) == {Fail(k) : k \in FailKinds} \cup {Ok(b) : b \in EdqmBodies(d)}

\* the URL fetch_edqm_html requests: BASE_URL with the date range as query
EdqmUrl(n, days_ago) ==
  [base |-> "BASE_URL",
   vtsubDateBtwBegin |-> DateStr("dmy", DateOf(MinusDays(n, days_ago))),
   vtsubDateBtwEnd |-> DateStr("dmy", DateOf(n))]

fetch_edqm_html(n, days_ago, resp) ==
  IF resp.kind = "ok"
  THEN [text |-> resp.body, results_url |-> EdqmUrl(n, days_ago), attempts |-> 1]
  ELSE [text |-> None, results_url |-> None, attempts |-> 1]

\* one <tr class="header"> of the results table turned into a record
EdqmRecord(row) ==
  LET p == Strptime(row.issue_date_cep, "dmy") IN
  [issue_date_cep |-> IF p.ok THEN StrftimeYMD(p.day) ELSE row.issue_date_cep]

RECURSIVE EdqmRecords(_)
EdqmRecords(rows) ==
  IF rows = <<>> THEN <<>>
  ELSE IF Head(rows).ncells = EdqmColumns
       THEN <<EdqmRecord(Head(rows))>> \o EdqmRecords(Tail(rows))
       ELSE EdqmRecords(Tail(rows))

\* mutant: a body without the results table is a failure, whatever it says
parse_edqm_table_NoTableIsFailure(html) ==
  IF html = EmptyBody THEN None
  ELSE IF ~html.table THEN None
       ELSE IF ~html.tbody THEN List(<<>>)
            ELSE List(EdqmRecords(html.rows))

parse_edqm_table(html) ==
  IF html = EmptyBody THEN None
  ELSE IF ~html.table
       THEN (IF html.noResults THEN List(<<>>) ELSE None)
       ELSE IF ~html.tbody THEN List(<<>>)
            ELSE List(EdqmRecords(html.rows))

\* mutant: a failed fetch is reported as a package without records
edqm_check_for_updates_EmptyOnFetchFailure(n, days_to_check, resp) ==
  LET f == fetch_edqm_html(n, days_to_check, resp) IN
  IF f.text = None
  THEN Did(Package(<<>>, EdqmUrl(n, days_to_check)), <<St("fetch", "Failure")>>,
           f.attempts, <<>>)
  ELSE LET data == parse_edqm_table(f.text) IN
       IF data = None
       THEN Did(None, <<St("fetch", "ok"), St("parse", "Failure")>>, f.attempts, <<>>)
       ELSE Did(Package(data.rows, f.results_url),
                <<St("fetch", "ok"), St("parse", "ok")>>, f.attempts, <<>>)

\* edqm_source.check_for_updates for one upstream response: the value it
\* returns and the stages it ran, each with its outcome
edqm_check_for_updates(n, days_to_check, resp) ==
  LET f == fetch_edqm_html(n, days_to_check, resp) IN
  IF f.text = None THEN Did(None, <<St("fetch", "Failure")>>, f.attempts, <<>>)
  ELSE LET data == parse_edqm_table(f.text) IN
       IF data = None
       THEN Did(None, <<St("fetch", "ok"), St("parse", "Failure")>>, f.attempts, <<>>)
       ELSE Did(Package(data.rows, f.results_url),
                <<St("fetch", "ok"), St("parse", "ok")>>, f.attempts, <<>>)

\* ------------------------------------------------------------ CDSCO
\* the page fetch_cdsco_html requests, without query parameters
CDSCO_WC_URL == [base |-> "CDSCO_WC_URL"]

TimeWord == DateStr("time", 0)
\* cell 4 is text split at spaces; link is "href", "nohref" or "none"
CdscoRow(n, words, link) == [ncells |-> n, release |-> words, link |-> link]
CdscoRows(d) ==
  {CdscoRow(CdscoColumns, <<DateStr("ymd", x), TimeWord>>, "href") : x \in SampleDays(d)}
    \cup {CdscoRow(CdscoColumns, <<BadDate>>, "href"),
          CdscoRow(CdscoColumns, <<EmptyDate>>, "href"),
          CdscoRow(CdscoColumns - 1, <<DateStr("ymd", Today)>>, "href"),
          CdscoRow(CdscoColumns, <<DateStr("ymd", Today)>>, "nohref")}
CdscoPage(t, tb, rows) == [tag |-> "cdsco", table |-> t, tbody |-> tb, rows |-> rows]
CdscoPages(d, n) ==
  {EmptyBody, CdscoPage(FALSE, FALSE, <<>>), CdscoPage(TRUE, FALSE, <<>>)}
    \cup {CdscoPage(TRUE, TRUE, r) : r \in SeqsUpTo(CdscoRows(d), n)}
CdscoBodies(d) == CdscoPages(d, MaxRows)
\* what the upstream answers to attempts 1..max_retries: k failures, then the body
CdscoAnswers(d) ==
  {[i \in 1..max_retries |-> IF i <= k THEN Fail(fk) ELSE Ok(b)] :
     k \in 0..max_retries, fk \in {"timeout"}, b \in CdscoBodies(d)}
    \cup {[i \in 1..max_retries |-> Fail(fk)] : fk \in FailKinds}

RECURSIVE FetchCdscoFrom(_, _, _)
\* the for loop of fetch_cdsco_html from index attempt on, sleeps so far
FetchCdscoFrom(answers, attempt, sleeps) ==
  IF attempt >= max_retries
  THEN [text |-> None, attempts |-> attempt, sleeps |-> sleeps]
  ELSE IF answers[attempt + 1].kind = "ok"
       THEN [text |-> answers[attempt + 1].body, attempts |-> attempt + 1,
             sleeps |-> sleeps]
       ELSE IF attempt < max_retries - 1
            THEN FetchCdscoFrom(answers, attempt + 1,
                                Append(sleeps, backoff_factor * (attempt + 1)))
            ELSE [text |-> None, attempts |-> attempt + 1, sleeps |-> sleeps]

RECURSIVE FetchCdscoFrom_SleepsAfterLast(_, _, _)
\* mutant: the backoff sleep is taken after every failed attempt, the last
\* one included
FetchCdscoFrom_SleepsAfterLast(answers, attempt, sleeps) ==
  IF attempt >= max_retries
  THEN [text |-> None, attempts |-> attempt, sleeps |-> sleeps]
  ELSE IF answers[attempt + 1].kind = "ok"
       THEN [text |-> answers[attempt + 1].body, attempts |-> attempt + 1,
             sleeps |-> sleeps]
       ELSE FetchCdscoFrom_SleepsAfterLast(answers, attempt + 1,
                                Append(sleeps, backoff_factor * (attempt + 1)))

fetch_cdsco_html_SleepsAfterLast(answers) ==
  FetchCdscoFrom_SleepsAfterLast(answers, 0, <<>>)

fetch_cdsco_html(answers) == FetchCdscoFrom(answers, 0, <<>>)

CdscoRecord(row) ==
  [release_date |-> Head(row.release),
   download_pdf_link |-> IF row.link = "none" THEN "" ELSE "CDSCO_BASE_URL+href"]

RECURSIVE CdscoRecords(_)
CdscoRecords(rows) ==
  IF rows = <<>> THEN <<>>
  ELSE IF Head(rows).ncells = CdscoColumns
       THEN <<CdscoRecord(Head(rows))>> \o CdscoRecords(Tail(rows))
       ELSE CdscoRecords(Tail(rows))

\* a 7-cell row whose anchor has no href makes link_tag['href'] raise
\* KeyError, which the outer except turns into None
CdscoRowRaises(row) == row.ncells = CdscoColumns /\ row.link = "nohref"

parse_cdsco_table(html) ==
  IF html = EmptyBody THEN None
  ELSE IF ~html.table THEN None
       ELSE IF ~html.tbody THEN List(<<>>)
            ELSE IF \E i \in 1..Len(html.rows) : CdscoRowRaises(html.rows[i])
                 THEN None
                 ELSE List(CdscoRecords(html.rows))

RECURSIVE CdscoFilter(_, _)
\* the loop of cdsco check_for_updates over all_confirmations
CdscoFilter(certs, cutoff_date) ==
  IF certs = <<>> THEN <<>>
  ELSE LET cert == Head(certs)
           rest == CdscoFilter(Tail(certs), cutoff_date)
           p == Strptime(cert.release_date, "ymd")
       IN IF ~Truthy(cert.release_date) THEN rest
          ELSE IF p.ok /\ p.day >= DateOf(cutoff_date) THEN <<cert>> \o rest
               ELSE rest

\* mutant: a table that could not be parsed is filtered as an empty list
cdsco_check_for_updates_ParseFailureAsEmpty(n, days_to_check, answers) ==
  LET f == fetch_cdsco_html(answers) IN
  IF f.text = None
  THEN Did(None, <<St("fetch", "Failure")>>, f.attempts, f.sleeps)
  ELSE LET all == parse_cdsco_table(f.text) IN
       IF all = None
       THEN Did(Package(<<>>, CDSCO_WC_URL),
                <<St("fetch", "ok"), St("parse", "Failure"), St("filter", "ok")>>,
                f.attempts, f.sleeps)
       ELSE Did(Package(CdscoFilter(all.rows, MinusDays(n, days_to_check)),
                        CDSCO_WC_URL),
                <<St("fetch", "ok"), St("parse", "ok"), St("filter", "ok")>>,
                f.attempts, f.sleeps)

cdsco_check_for_updates(n, days_to_check, answers) ==
  LET f == fetch_cdsco_html(answers) IN
  IF f.text = None
  THEN Did(None, <<St("fetch", "Failure")>>, f.attempts, f.sleeps)
  ELSE LET all == parse_cdsco_table(f.text) IN
       IF all = None
       THEN Did(None, <<St("fetch", "ok"), St("parse", "Failure")>>,
                f.attempts, f.sleeps)
       ELSE Did(Package(CdscoFilter(all.rows, MinusDays(n, days_to_check)),
                        CDSCO_WC_URL),
                <<St("fetch", "ok"), St("parse", "ok"), St("filter", "ok")>>,
                f.attempts, f.sleeps)

\* ------------------------------------------------------------ challenge solver
\* The landing response: requests raised ("exception"), or a response with a
\* status and a text in which the script reference 'abuse-deterrent.js', the
\* word 'public_salt', the salt assignment and the candidates assignment
\* (with ncand candidates between slashes) are present or not.  domId says
\* whether the page carries a js-view-dom-id marker.
Landing(k, st, scr, word, salt, cand, nc, dom) ==
  [kind |-> k, status |-> st, script |-> scr, saltWord |-> word,
   saltMatch |-> salt, candMatch |-> cand, ncand |-> nc, domId |-> dom]
Landings ==
  {Landing("exception", 0, FALSE, FALSE, FALSE, FALSE, 0, FALSE),
   Landing("resp", 200, FALSE, FALSE, FALSE, FALSE, 0, TRUE),
   Landing("resp", 200, FALSE, TRUE, TRUE, TRUE, 2, TRUE),
   Landing("resp", 200, TRUE, TRUE, TRUE, TRUE, 2, TRUE),
   Landing("resp", 403, FALSE, TRUE, TRUE, TRUE, 2, FALSE),
   Landing("resp", 403, TRUE, TRUE, TRUE, TRUE, 2, FALSE),
   Landing("resp", 403, TRUE, TRUE, FALSE, TRUE, 2, FALSE),
   Landing("resp", 403, TRUE, TRUE, TRUE, FALSE, 0, FALSE),
   Landing("resp", 403, TRUE, TRUE, TRUE, TRUE, 1, FALSE),
   Landing("resp", 500, FALSE, FALSE, FALSE, FALSE, 0, FALSE)}

\* hashlib.sha256(text).hexdigest().upper(), kept symbolic
_compute_sha256(text) == [sha256upper |-> text]

Session(cookies) == [tag |-> "session", cookies |-> cookies]

\* mutant: the first cookie is set as soon as it is computed, so a page
\* with a single candidate leaves a session with authorization_1 only
_solve_challenge_and_get_session_SetsCookiesOneByOne(l) ==
  IF l.kind = "exception" THEN None
  ELSE IF l.status = 200 /\ ~l.script THEN Session(EmptyMap)
  ELSE IF l.script \/ l.saltWord
       THEN IF ~l.saltMatch \/ ~l.candMatch THEN None
            ELSE IF l.ncand < 2
                 THEN Session([c \in {"authorization_1"} |->
                                 _compute_sha256(<<"salt", "cand0">>)])
                 ELSE Session([c \in {"authorization_1", "authorization_2"} |->
                        IF c = "authorization_1"
                        THEN _compute_sha256(<<"salt", "cand0">>)
                        ELSE _compute_sha256(<<"salt", "cand1">>)])
       ELSE None

\* _solve_challenge_and_get_session of fda_source.py and fda_dmf_source.py
\* (the two bodies differ only in the landing URL)
_solve_challenge_and_get_session(l) ==
  IF l.kind = "exception" THEN None
  ELSE IF l.status = 200 /\ ~l.script THEN Session(EmptyMap)
  ELSE IF l.script \/ l.saltWord
       THEN IF ~l.saltMatch \/ ~l.candMatch THEN None
            ELSE IF l.ncand < 2 THEN None
                 ELSE Session([c \in {"authorization_1", "authorization_2"} |->
                        IF c = "authorization_1"
                        THEN _compute_sha256(<<"salt", "cand0">>)
                        ELSE _compute_sha256(<<"salt", "cand1">>)])
       ELSE None

\* _extract_view_dom_id: the id on the second landing request, or None
_extract_view_dom_id(l) ==
  IF l.kind = "resp" /\ l.domId THEN [tag |-> "id"] ELSE None

\* ------------------------------------------------------------ FDA warning letters
\* A row of the JSON data array.  cols is its length; time says whether
\* column 0 holds a <time> tag with a datetime attribute ("attr"), a <time>
\* tag without one ("noattr") or no <time> tag ("none"); datetime is the
\* attribute text before 'T'; text is the visible text of column 0; link
\* says whether column 2 holds an anchor; broken rows make BeautifulSoup raise.
FdaRow(c, t, dt, txt, link, broken) ==
  [cols |-> c, time |-> t, datetime |-> dt, text |-> txt, link |-> link,
   broken |-> broken]
FdaRows(d) ==
  {FdaRow(FdaMinColumns, "attr", DateStr("ymd", x), EmptyDate, TRUE, FALSE) :
     x \in SampleDays(d)}
    \cup {FdaRow(FdaMinColumns, "attr", BadDate, EmptyDate, TRUE, FALSE),
          FdaRow(FdaMinColumns, "attr", EmptyDate, EmptyDate, TRUE, FALSE),
          FdaRow(FdaMinColumns, "none", EmptyDate, DateStr("mdy", Today), TRUE, FALSE),
          FdaRow(FdaMinColumns, "noattr", EmptyDate, BadDate, TRUE, FALSE),
          FdaRow(FdaMinColumns, "attr", DateStr("ymd", Today), EmptyDate, FALSE, FALSE),
          FdaRow(FdaMinColumns - 1, "attr", DateStr("ymd", Today), EmptyDate, TRUE, FALSE),
          FdaRow(FdaMinColumns, "attr", DateStr("ymd", Today), EmptyDate, TRUE, TRUE)}
\* the decoded JSON: a list of rows, an object with a data array, an
\* object without one, or a body that does not decode
FdaJson(shape, rows) == [tag |-> "json", shape |-> shape, rows |-> rows]
NotJson == [tag |-> "notjson"]
FdaPages(d, n) ==
  {NotJson, FdaJson("dict_nodata", <<>>), FdaJson("list", <<>>),
   FdaJson("list", <<FdaRow(FdaMinColumns, "attr", DateStr("ymd", Today),
                            EmptyDate, TRUE, FALSE)>>)}
    \cup {FdaJson("dict_data", r) : r \in SeqsUpTo(FdaRows(d), n)}
FdaBodies(d) == FdaPages(d, MaxRows)
FdaResponses(d) == {Fail(k) : k \in FailKinds} \cup {Ok(b) : b \in FdaBodies(d)}

\* the warning-letters page, which the solver and _extract_view_dom_id request
FDA_WL_PAGE_URL == [base |-> "FDA_WL_PAGE_URL"]

\* the request for the letters: FDA_AJAX_URL with its params, among them the
\* millisecond timestamp and, when one was found, the view_dom_id
FdaAjaxUrl(n, view_dom_id) ==
  [base |-> "FDA_AJAX_URL", field_change_date_2 |-> "2", timestamp |-> n,
   view_dom_id |-> view_dom_id]

FdaPostedDate(row) ==
  IF row.time = "attr" THEN row.datetime
  ELSE LET p == Strptime(row.text, "mdy") IN
       IF p.ok THEN StrftimeYMD(p.day) ELSE None

FdaRecord(row) ==
  [posted_date |-> FdaPostedDate(row),
   letter_url |-> IF row.link THEN "FDA_BASE_URL+href" ELSE "None"]

RECURSIVE FdaRecords_SkipsUnmarked(_)
\* mutant: a row without a datetime attribute or without an anchor is skipped
FdaRecords_SkipsUnmarked(rows) ==
  IF rows = <<>> THEN <<>>
  ELSE IF \/ Head(rows).cols < FdaMinColumns \/ Head(rows).broken
          \/ Head(rows).time # "attr" \/ ~Head(rows).link
       THEN FdaRecords_SkipsUnmarked(Tail(rows))
       ELSE <<FdaRecord(Head(rows))>> \o FdaRecords_SkipsUnmarked(Tail(rows))

RECURSIVE FdaRecords(_)
FdaRecords(rows) ==
  IF rows = <<>> THEN <<>>
  ELSE IF Head(rows).cols < FdaMinColumns \/ Head(rows).broken
       THEN FdaRecords(Tail(rows))
       ELSE <<FdaRecord(Head(rows))>> \o FdaRecords(Tail(rows))

\* parse_fda_letters never returns the failure marker
parse_fda_letters(api_response) ==
  IF api_response.shape \in {"list", "dict_data"}
  THEN List(FdaRecords(api_response.rows))
  ELSE List(<<>>)

\* the letters on which the filter's strptime raises ValueError
FdaFilterRaises(letters) ==
  \E i \in 1..Len(letters) :
     /\ Truthy(letters[i].posted_date)
     /\ ~Strptime(letters[i].posted_date, "ymd").ok

RECURSIVE FdaFilter(_, _)
\* the list comprehension of fda check_for_updates (where it does not raise)
FdaFilter(letters, cutoff_date) ==
  IF letters = <<>> THEN <<>>
  ELSE LET l == Head(letters)
           rest == FdaFilter(Tail(letters), cutoff_date)
       IN IF Truthy(l.posted_date)
             /\ Strptime(l.posted_date, "ymd").day >= DateOf(cutoff_date)
          THEN <<l>> \o rest ELSE rest

\* mutant: a body that does not decode is parsed as a feed without rows
fda_check_for_updates_UndecodableAsEmpty(n, days_to_check, landing, resp) ==
  LET session == _solve_challenge_and_get_session(landing) IN
  IF session = None THEN Did(None, <<St("solve", "Failure")>>, 0, <<>>)
  ELSE IF resp.kind # "ok"
  THEN Did(None, <<St("solve", "ok"), St("fetch", "Failure")>>, 1, <<>>)
  ELSE LET all == IF resp.body = NotJson THEN <<>>
                  ELSE parse_fda_letters(resp.body).rows IN
       IF FdaFilterRaises(all)
       THEN Did(Raised,
                <<St("solve", "ok"), St("fetch", "ok"), St("parse", "ok"),
                  St("filter", "raised")>>, 1, <<>>)
       ELSE Did(Package(FdaFilter(all, MinusDays(n, days_to_check)),
                        FDA_WL_PAGE_URL),
                <<St("solve", "ok"), St("fetch", "ok"), St("parse", "ok"),
                  St("filter", "ok")>>, 1, <<>>)

fda_check_for_updates(n, days_to_check, landing, resp) ==
  LET session == _solve_challenge_and_get_session(landing) IN
  IF session = None THEN Did(None, <<St("solve", "Failure")>>, 0, <<>>)
  ELSE IF resp.kind # "ok" \/ resp.body = NotJson
  THEN Did(None, <<St("solve", "ok"), St("fetch", "Failure")>>, 1, <<>>)
  ELSE LET all == parse_fda_letters(resp.body).rows IN
       IF FdaFilterRaises(all)
       THEN Did(Raised,
                <<St("solve", "ok"), St("fetch", "ok"), St("parse", "ok"),
                  St("filter", "raised")>>, 1, <<>>)
       ELSE Did(Package(FdaFilter(all, MinusDays(n, days_to_check)),
                        FDA_WL_PAGE_URL),
                <<St("solve", "ok"), St("fetch", "ok"), St("parse", "ok"),
                  St("filter", "ok")>>, 1, <<>>)

\* ------------------------------------------------------------ FDA DMF
\* The DMF page: whether li.node-current-date holds a <time> with a datetime
\* attribute, the attribute text before 'T', and the anchor whose text
\* contains 'excel': "none", "nohref", "relative" or "absolute".
\* an <a> of the page: its text, and whether its href is absolute, relative
\* or absent
Anchor(text, href) == [text |-> text, href |-> href]
NoAnchor == Anchor(<<>>, "notag")

\* str.lower() on the characters the pages use
LowerChar(c) ==
  CASE c = "E" -> "e" [] c = "X" -> "x" [] c = "C" -> "c" [] c = "L" -> "l"
    [] c = "P" -> "p" [] c = "D" -> "d" [] c = "F" -> "f" [] OTHER -> c
Lower(text) == [i \in 1..Len(text) |-> LowerChar(text[i])]

\* sub in text
Contains(text, sub) ==
  \E i \in 1..(Len(text) - Len(sub) + 1) : SubSeq(text, i, i + Len(sub) - 1) = sub

\* soup.find('a', string=lambda text: text and 'excel' in text.lower()):
\* the first anchor whose text holds the keyword, whatever its case
HasKeyword(a) == Contains(Lower(a.text), <<"e", "x", "c", "e", "l">>)
RECURSIVE FindExcelLink(_)
FindExcelLink(anchors) ==
  IF anchors = <<>> THEN NoAnchor
  ELSE IF HasKeyword(Head(anchors)) THEN Head(anchors)
       ELSE FindExcelLink(Tail(anchors))

\* the DMF page: whether li.node-current-date holds a <time> with a
\* datetime attribute, that attribute, and the anchors in document order
DmfPage(tm, dt, anchors) ==
  [tag |-> "dmf", time |-> tm, datetime |-> dt, anchors |-> anchors]
TextExcel == <<"E", "x", "c", "e", "l">>
TextUpper == <<"A", "s", " ", "E", "X", "C", "E", "L">>
TextLower == <<"e", "x", "c", "e", "l">>
TextPdf == <<"P", "D", "F">>
DmfBodies ==
  {EmptyBody,
   DmfPage(TRUE, DateStr("ymd", Today), <<Anchor(TextExcel, "relative")>>),
   DmfPage(TRUE, DateStr("ymd", Today - 30), <<Anchor(TextUpper, "absolute")>>),
   DmfPage(TRUE, BadDate, <<Anchor(TextLower, "relative")>>),
   DmfPage(FALSE, EmptyDate, <<Anchor(TextExcel, "relative")>>),
   DmfPage(TRUE, DateStr("ymd", Today), <<>>),
   DmfPage(TRUE, DateStr("ymd", Today), <<Anchor(TextExcel, "nohref")>>),
   DmfPage(TRUE, DateStr("ymd", Today), <<Anchor(TextPdf, "relative")>>),
   DmfPage(TRUE, DateStr("ymd", Today - 1),
           <<Anchor(TextPdf, "absolute"), Anchor(TextExcel, "relative")>>),
   DmfPage(TRUE, DateStr("ymd", Today),
           <<Anchor(TextExcel, "nohref"), Anchor(TextExcel, "absolute")>>)}
DmfResponses == {Fail(k) : k \in FailKinds} \cup {Ok(b) : b \in DmfBodies}

Details(date, url) == [tag |-> "details", update_date |-> date, download_url |-> url]

\* mutant: the update date alone makes a package
parse_dmf_page_details_DateAlone(html) ==
  IF html = EmptyBody THEN None
  ELSE IF ~html.time THEN None
       ELSE LET excel_link_tag == FindExcelLink(html.anchors) IN
            IF excel_link_tag.href \in {"relative", "absolute"}
            THEN Details(html.datetime,
                         IF excel_link_tag.href = "absolute" THEN "href"
                         ELSE "FDA_BASE_URL+href")
            ELSE Details(html.datetime, "none")

parse_dmf_page_details(html) ==
  IF html = EmptyBody THEN None
  ELSE IF ~html.time THEN None
       ELSE LET excel_link_tag == FindExcelLink(html.anchors) IN
            IF excel_link_tag.href \in {"relative", "absolute"}
            THEN Details(html.datetime,
                         IF excel_link_tag.href = "absolute" THEN "href"
                         ELSE "FDA_BASE_URL+href")
            ELSE None

check_dmf_details(landing, resp) ==
  LET session == _solve_challenge_and_get_session(landing) IN
  IF session = None THEN Did(None, <<St("solve", "Failure")>>, 0, <<>>)
  ELSE IF resp.kind # "ok"
  THEN Did(None, <<St("solve", "ok"), St("fetch", "Failure")>>, 1, <<>>)
  ELSE LET details == parse_dmf_page_details(resp.body) IN
       IF details = None
       THEN Did(None, <<St("solve", "ok"), St("fetch", "ok"), St("parse", "Failure")>>,
                1, <<>>)
       ELSE Did(details, <<St("solve", "ok"), St("fetch", "ok"), St("parse", "ok")>>,
                1, <<>>)

\* ------------------------------------------------------------ consolidator
SourceOrder == <<"edqm", "cdsco", "fda", "fda_dmf">>

ListEntry(pkg) ==
  [tag |-> "list", updates |-> pkg.data, source_url |-> pkg.source_url,
   update_count |-> Len(pkg.data)]

\* mutant: only list-shaped packages are recognised
ConsolidateOne_SkipsSingleValue(pkg) ==
  IF pkg = None THEN None
  ELSE IF pkg.tag = "pkg" THEN ListEntry(pkg)
  ELSE None

\* how consolidate_source_data treats one package: a list entry, the
\* package itself, or nothing (None)
ConsolidateOne(pkg) ==
  IF pkg = None THEN None
  ELSE IF pkg.tag = "pkg" THEN ListEntry(pkg)
  ELSE IF pkg.tag = "details" THEN pkg
  ELSE None

UpdateCount(entry) == IF entry.tag = "list" THEN entry.update_count ELSE 0

RECURSIVE SumCounts(_, _)
SumCounts(entries, names) ==
  IF names = {} THEN 0
  ELSE LET k == CHOOSE x \in names : TRUE IN
       UpdateCount(entries[k]) + SumCounts(entries, names \ {k})

\* consolidate_source_data: the report entries by source name and the total
consolidate_source_data(raw) ==
  LET kept == {k \in DOMAIN raw : ConsolidateOne(raw[k]) # None}
      entries == [k \in kept |-> ConsolidateOne(raw[k])]
  IN [tag |-> "report", sources |-> entries,
      total_updates |-> SumCounts(entries, kept)]

\* ------------------------------------------------------------ HTML generator
\* the ValueError/TypeError of strptime(x.get(date_key), '%Y-%m-%d')
DateUnparsable(v) == v = None \/ ~Strptime(v, "ymd").ok

RECURSIVE InsertDesc(_, _, _)
\* insert x after every element whose date is not older (stable, newest first)
InsertDesc(x, sorted, date_key) ==
  IF sorted = <<>> THEN <<x>>
  ELSE IF Strptime(Head(sorted)[date_key], "ymd").day
            >= Strptime(x[date_key], "ymd").day
       THEN <<Head(sorted)>> \o InsertDesc(x, Tail(sorted), date_key)
       ELSE <<x>> \o sorted

RECURSIVE SortDesc(_, _)
SortDesc(data, date_key) ==
  IF data = <<>> THEN <<>>
  ELSE InsertDesc(data[Len(data)], SortDesc(SubSeq(data, 1, Len(data) - 1), date_key),
                  date_key)

\* _sort_data_by_date: newest first, or the data as it is when a date
\* does not parse
_sort_data_by_date(data, date_key) ==
  IF \E i \in 1..Len(data) : DateUnparsable(data[i][date_key]) THEN data
  ELSE SortDesc(data, date_key)

\* the row formatter of a section raises ValueError on a date that is
\* present and is no YYYY-MM-DD date
FormatterRaises(item, date_key) ==
  Truthy(item[date_key]) /\ ~Strptime(item[date_key], "ymd").ok

\* date_str of a row: strftime('%b %d') of the date, or 'N/A'
RowDateStr(item, date_key) ==
  IF Truthy(item[date_key])
  THEN DateStr("b d", Strptime(item[date_key], "ymd").day)
  ELSE DateStr("N/A", 0)

DateKey(source) ==
  CASE source = "edqm" -> "issue_date_cep"
    [] source = "cdsco" -> "release_date"
    [] OTHER -> "posted_date"

Formatted == {"edqm", "cdsco", "fda"}

\* the sources generate_html_report renders a section for
Rendered(report) ==
  {k \in DOMAIN report.sources \cap Formatted : UpdateCount(report.sources[k]) > 0}

\* _format_edqm_section, _format_cdsco_section, _format_fda_section: the
\* rows shown, in order
SectionRows(source, entry) ==
  LET shown == _sort_data_by_date(entry.updates, DateKey(source)) IN
  [i \in 1..Len(shown) |-> RowDateStr(shown[i], DateKey(source))]

SectionRaises(source, entry) ==
  \E i \in 1..Len(entry.updates) : FormatterRaises(entry.updates[i], DateKey(source))

\* _format_dmf_section: empty unless the report has a DMF date that parses
_format_dmf_section(report, n) ==
  IF "fda_dmf" \notin DOMAIN report.sources THEN DateStr("", 0)
  ELSE LET d == report.sources["fda_dmf"].update_date IN
       IF ~Truthy(d) \/ ~Strptime(d, "ymd").ok THEN DateStr("", 0)
       ELSE DateStr(IF n.day - Strptime(d, "ymd").day <= 7
                    THEN "Recently Updated" ELSE "Current Status",
                    Strptime(d, "ymd").day)

\* the report after the section formatters ran: the CDSCO and FDA
\* formatters rebind source_info["updates"] to the sorted list
ReportAfterHtml(report) ==
  [report EXCEPT !.sources =
     [k \in DOMAIN report.sources |->
        IF k \in Rendered(report) \cap {"cdsco", "fda"}
        THEN [report.sources[k] EXCEPT
                !.updates = _sort_data_by_date(@, DateKey(k))]
        ELSE report.sources[k]]]

\* the {"subject": ..., "html_body": ...} generate_html_report builds
EmailPackage(report, n) ==
  [tag |-> "email",
   subject |-> IF report.total_updates > 0
               THEN [kind |-> "New Updates", n |-> report.total_updates]
               ELSE [kind |-> "No Updates", n |-> 0],
   html_body |->
     [dmf |-> _format_dmf_section(report, n),
      summary |-> [k \in {x \in DOMAIN report.sources :
                            UpdateCount(report.sources[x]) > 0} |->
                     report.sources[k].update_count],
      sections |-> [k \in Rendered(report) |->
                      SectionRows(k, report.sources[k])]]]

\* mutant: no package is produced when there is nothing to report
generate_html_report_NothingWhenEmpty(report, n) ==
  IF report.total_updates = 0 THEN None
  ELSE IF \E k \in Rendered(report) : SectionRaises(k, report.sources[k])
       THEN Raised
       ELSE EmailPackage(report, n)

\* generate_html_report: the email package, or Raised when a row
\* formatter raises
generate_html_report(report, n) ==
  IF \E k \in Rendered(report) : SectionRaises(k, report.sources[k]) THEN Raised
  ELSE EmailPackage(report, n)

\* ------------------------------------------------------------ email sender
\* what happens to a send: the sender or API key is not configured, SendGrid
\* answers 2xx, answers another status, or the client raises
SendOutcomes == {"unconfigured", "accepted", "rejected", "exception"}

send_email(subject, html_body, recipient_emails, outcome) ==
  IF recipient_emails = <<>> THEN FALSE
  ELSE outcome = "accepted"

\* ------------------------------------------------------------ orchestrator
VARIABLES
  pc,                  \* where run_all_checks_and_notify stands
  days_env,            \* DAYS_TO_CHECK
  recipients_env,      \* RECIPIENT_EMAILS
  now,                 \* datetime.now()
  days_to_check,
  recipient_list,
  raw_results,
  returned,            \* what each adapter called so far returned
  stages,              \* the stages each adapter called so far ran
  retry,               \* attempts and sleeps of the latest data fetch
  upstream,            \* how the upstream answered each adapter called so far
  calls,               \* the collaborators invoked so far, in order
  consolidated_report,
  email_package,
  notification_sent,   \* what send_email returned ("none" before it is called)
  outbox,              \* the messages handed to SendGrid
  result               \* "none" while running, then "True", "False" or "Raised"

vars == <<pc, days_env, recipients_env, now, days_to_check, recipient_list,
          raw_results, returned, stages, retry, upstream, calls,
          consolidated_report, email_package, notification_sent, outbox, result>>

config == <<days_env, recipients_env, now>>
downstream == <<consolidated_report, email_package, notification_sent, outbox>>

Init ==
  /\ pc = "start"
  /\ days_env \in DaysEnvs
  /\ recipients_env \in RecipientEnvs
  /\ now \in Nows
  /\ days_to_check = 0
  /\ recipient_list = <<>>
  /\ raw_results = EmptyMap
  /\ returned = EmptyMap
  /\ stages = EmptyMap
  /\ retry = [attempts |-> 0, sleeps |-> <<>>]
  /\ upstream = EmptyMap
  /\ calls = <<>>
  /\ consolidated_report = None
  /\ email_package = None
  /\ notification_sent = "none"
  /\ outbox = <<>>
  /\ result = "none"

\* mutant: a DAYS_TO_CHECK that is no positive integer halts the run
Start_HaltsOnInvalidWindow ==
  /\ pc = "start"
  /\ days_to_check' = ResolveDays(days_env)
  /\ IF \/ recipients_env = None \/ recipients_env.text = <<>>
        \/ days_env.kind = "junk"
        \/ (days_env.kind = "int" /\ days_env.val <= 0)
     THEN /\ recipient_list' = <<>>
          /\ pc' = "done" /\ result' = "False"
     ELSE /\ recipient_list' = ParseRecipients(recipients_env.text)
          /\ IF recipient_list' = <<>>
             THEN pc' = "done" /\ result' = "False"
             ELSE pc' = "edqm" /\ result' = "none"
  /\ UNCHANGED <<config, raw_results, returned, stages, retry, upstream, calls,
                 downstream>>

\* manager.py lines 11-28: resolve the window and the recipients
Start ==
  /\ pc = "start"
  /\ days_to_check' = ResolveDays(days_env)
  /\ IF recipients_env = None \/ recipients_env.text = <<>>
     THEN /\ recipient_list' = <<>>
          /\ pc' = "done" /\ result' = "False"
     ELSE /\ recipient_list' = ParseRecipients(recipients_env.text)
          /\ IF recipient_list' = <<>>
             THEN pc' = "done" /\ result' = "False"
             ELSE pc' = "edqm" /\ result' = "none"
  /\ UNCHANGED <<config, raw_results, returned, stages, retry, upstream, calls,
                 downstream>>

Io(landing, data) == [landing |-> landing, data |-> data]

\* mutant: a None is logged and the run goes on to the next source
CheckSource_GoesOnAfterNone(name, did, next, io) ==
  /\ calls' = Append(calls, name)
  /\ upstream' = (name :> io) @@ upstream
  /\ returned' = (name :> did.pkg) @@ returned
  /\ stages' = (name :> did.stages) @@ stages
  /\ retry' = [attempts |-> did.attempts, sleeps |-> did.sleeps]
  /\ IF did.pkg = Raised
     THEN pc' = "done" /\ result' = "Raised" /\ UNCHANGED raw_results
     ELSE IF did.pkg = None
     THEN pc' = next /\ result' = "none" /\ UNCHANGED raw_results
     ELSE /\ raw_results' = (name :> did.pkg) @@ raw_results
          /\ pc' = next /\ result' = "none"
  /\ UNCHANGED <<config, days_to_check, recipient_list, downstream>>

\* mutant: an adapter that returned None is invoked a second time
CheckSource_InvokesAgainAfterNone(name, did, next, io) ==
  /\ calls' = Append(calls, name)
  /\ upstream' = (name :> io) @@ upstream
  /\ returned' = (name :> did.pkg) @@ returned
  /\ stages' = (name :> did.stages) @@ stages
  /\ retry' = [attempts |-> did.attempts, sleeps |-> did.sleeps]
  /\ IF did.pkg = Raised
     THEN pc' = "done" /\ result' = "Raised" /\ UNCHANGED raw_results
     ELSE IF did.pkg = None
     THEN IF name \in DOMAIN returned
          THEN pc' = "done" /\ result' = "False" /\ UNCHANGED raw_results
          ELSE UNCHANGED <<pc, result, raw_results>>
     ELSE /\ raw_results' = (name :> did.pkg) @@ raw_results
          /\ pc' = next /\ result' = "none"
  /\ UNCHANGED <<config, days_to_check, recipient_list, downstream>>

\* mutant: whatever the adapter returned is stored, None included, as
\* aggregate_all_sources does
CheckSource_StoresNone(name, did, next, io) ==
  /\ calls' = Append(calls, name)
  /\ upstream' = (name :> io) @@ upstream
  /\ returned' = (name :> did.pkg) @@ returned
  /\ stages' = (name :> did.stages) @@ stages
  /\ retry' = [attempts |-> did.attempts, sleeps |-> did.sleeps]
  /\ IF did.pkg = Raised
     THEN pc' = "done" /\ result' = "Raised" /\ UNCHANGED raw_results
     ELSE /\ raw_results' = (name :> did.pkg) @@ raw_results
          /\ pc' = next /\ result' = "none"
  /\ UNCHANGED <<config, days_to_check, recipient_list, downstream>>

\* one "Checking source" block of the manager: call the adapter, halt on
\* None, store the package otherwise; an exception leaves the manager
\* io is how the upstream answered: the landing request (if the adapter
\* makes one) and the last data request
CheckSource(name, did, next, io) ==
  /\ calls' = Append(calls, name)
  /\ upstream' = (name :> io) @@ upstream
  /\ returned' = (name :> did.pkg) @@ returned
  /\ stages' = (name :> did.stages) @@ stages
  /\ retry' = [attempts |-> did.attempts, sleeps |-> did.sleeps]
  /\ IF did.pkg = Raised
     THEN pc' = "done" /\ result' = "Raised" /\ UNCHANGED raw_results
     ELSE IF did.pkg = None
     THEN pc' = "done" /\ result' = "False" /\ UNCHANGED raw_results
     ELSE /\ raw_results' = (name :> did.pkg) @@ raw_results
          /\ pc' = next /\ result' = "none"
  /\ UNCHANGED <<config, days_to_check, recipient_list, downstream>>

CheckEDQM ==
  /\ pc = "edqm"
  /\ \E resp \in EdqmResponses(days_to_check) :
     CheckSource("edqm", edqm_check_for_updates(now, days_to_check, resp), "cdsco",
                 Io("none", resp.kind))

CheckCDSCO ==
  /\ pc = "cdsco"
  /\ \E answers \in CdscoAnswers(days_to_check) :
     CheckSource("cdsco",
                 cdsco_check_for_updates(now, days_to_check, answers), "fda",
                 Io("none", answers[fetch_cdsco_html(answers).attempts].kind))

\* the data request is issued, and answered, only with a session
DataResponses(landing, responses) ==
  IF _solve_challenge_and_get_session(landing) = None THEN {NoExchange}
  ELSE responses

\* how the AJAX endpoint answered: a failure, a 2xx response whose body
\* response.json() decodes ("ok") or one it does not ("undecodable")
AnswerKind(resp) ==
  IF resp.kind = "ok" /\ resp.body = NotJson THEN "undecodable" ELSE resp.kind

CheckFDA ==
  /\ pc = "fda"
  /\ \E landing \in Landings :
     \E resp \in DataResponses(landing, FdaResponses(days_to_check)) :
     CheckSource("fda",
                 fda_check_for_updates(now, days_to_check, landing, resp), "dmf",
                 Io(landing.kind, AnswerKind(resp)))

\* how the DMF site answered: the landing request, the page request and
\* the page it served
DmfIo(landing, resp) ==
  [landing |-> landing.kind, data |-> resp.kind,
   page |-> IF resp.kind = "ok" THEN resp.body ELSE EmptyBody]

\* mutant: the DMF details are stored under the key "dmf", the key
\* aggregate_all_sources uses
CheckDMF_StoresUnderDmf ==
  /\ pc = "dmf"
  /\ \E landing \in Landings :
     \E resp \in DataResponses(landing, DmfResponses) :
     CheckSource("dmf", check_dmf_details(landing, resp), "consolidate",
                 DmfIo(landing, resp))

CheckDMF ==
  /\ pc = "dmf"
  /\ \E landing \in Landings :
     \E resp \in DataResponses(landing, DmfResponses) :
     CheckSource("fda_dmf", check_dmf_details(landing, resp), "consolidate",
                 DmfIo(landing, resp))

\* manager.py lines 62-66
Consolidate ==
  /\ pc = "consolidate"
  /\ calls' = Append(calls, "consolidator")
  /\ consolidated_report' = consolidate_source_data(raw_results)
  /\ IF consolidated_report' = None
     THEN pc' = "done" /\ result' = "False"
     ELSE pc' = "html" /\ result' = "none"
  /\ UNCHANGED <<config, days_to_check, recipient_list, raw_results, returned,
                 stages, retry, upstream, email_package, notification_sent, outbox>>

\* mutant: the section formatters sort with list.sort(), in place; the
\* list of a report entry is the list of the package it was built from
GenerateHtml_SortsInPlace ==
  /\ pc = "html"
  /\ calls' = Append(calls, "html_generator")
  /\ email_package' = generate_html_report(consolidated_report, now)
  /\ consolidated_report' =
       IF email_package' = Raised THEN consolidated_report
       ELSE ReportAfterHtml(consolidated_report)
  /\ raw_results' =
       IF email_package' = Raised THEN raw_results
       ELSE [k \in DOMAIN raw_results |->
               IF k \in Rendered(consolidated_report) \cap {"cdsco", "fda"}
               THEN [raw_results[k] EXCEPT
                       !.data = _sort_data_by_date(@, DateKey(k))]
               ELSE raw_results[k]]
  /\ IF email_package' = Raised THEN pc' = "done" /\ result' = "Raised"
     ELSE IF email_package' = None THEN pc' = "done" /\ result' = "False"
     ELSE pc' = "send" /\ result' = "none"
  /\ UNCHANGED <<config, days_to_check, recipient_list, returned,
                 stages, retry, upstream, notification_sent, outbox>>

\* manager.py lines 68-72; sorted() builds a new list, which the formatters
\* bind to the "updates" key of the report entry, so the lists held by
\* raw_results are not written
GenerateHtml ==
  /\ pc = "html"
  /\ calls' = Append(calls, "html_generator")
  /\ email_package' = generate_html_report(consolidated_report, now)
  /\ consolidated_report' =
       IF email_package' = Raised THEN consolidated_report
       ELSE ReportAfterHtml(consolidated_report)
  /\ IF email_package' = Raised THEN pc' = "done" /\ result' = "Raised"
     ELSE IF email_package' = None THEN pc' = "done" /\ result' = "False"
     ELSE pc' = "send" /\ result' = "none"
  /\ UNCHANGED <<config, days_to_check, recipient_list, raw_results, returned,
                 stages, retry, upstream, notification_sent, outbox>>

\* manager.py lines 74-85
SendEmail ==
  /\ pc = "send"
  /\ \E outcome \in SendOutcomes :
       LET sent == send_email(email_package.subject, email_package.html_body,
                              recipient_list, outcome)
       IN /\ outbox' = IF outcome = "unconfigured" THEN outbox
                       ELSE Append(outbox, [subject |-> email_package.subject,
                                            to |-> recipient_list])
          /\ notification_sent' = IF sent THEN "True" ELSE "False"
          /\ result' = IF sent THEN "True" ELSE "False"
  /\ calls' = Append(calls, "send_email")
  /\ pc' = "done"
  /\ UNCHANGED <<config, days_to_check, recipient_list, raw_results, returned,
                 stages, retry, upstream, consolidated_report, email_package>>

Next ==
  \/ Start
  \/ CheckEDQM
  \/ CheckCDSCO
  \/ CheckFDA
  \/ CheckDMF
  \/ Consolidate
  \/ GenerateHtml
  \/ SendEmail

Spec == Init /\ [][Next]_vars

\* ------------------------------------------------ functions taken alone
\* A function of the pipeline applied to one input: pc names the function
\* about to be applied, upstream holds its input, returned its result.  The
\* variables of the orchestrator keep their initial values.
rest == <<days_env, recipients_env, now, days_to_check, recipient_list,
          raw_results, stages, retry, calls, consolidated_report,
          email_package, notification_sent, outbox, result>>

Alone(at, input) ==
  /\ pc = at
  /\ upstream = input
  /\ returned = None
  /\ days_env = DaysUnset
  /\ recipients_env = None
  /\ now \in Nows
  /\ days_to_check = ResolveDays(DaysInt(1))
  /\ recipient_list = <<>>
  /\ raw_results = EmptyMap
  /\ stages = EmptyMap
  /\ retry = [attempts |-> 0, sleeps |-> <<>>]
  /\ calls = <<>>
  /\ consolidated_report = None
  /\ email_package = None
  /\ notification_sent = "none"
  /\ outbox = <<>>
  /\ result = "none"

\* fetch_cdsco_html against an upstream that answers each of the
\* max_retries attempts with a body or with a failure, in any combination
FetchBodies == {EmptyBody, CdscoPage(TRUE, FALSE, <<>>)}
FetchAnswers ==
  [1..max_retries -> {Ok(b) : b \in FetchBodies} \cup {Fail(k) : k \in FailKinds}]

InitFetch == \E answers \in FetchAnswers : Alone("fetch_cdsco_html", answers)

Fetch ==
  /\ pc = "fetch_cdsco_html"
  /\ returned' = fetch_cdsco_html(upstream)
  /\ pc' = "fetched"
  /\ UNCHANGED <<upstream, rest>>

SpecFetch == InitFetch /\ [][Fetch]_vars

\* the three table parsers, each against the bodies a successful fetch of
\* its adapter can hand it
ParseInput(parser, body) == [parser |-> parser, body |-> body]
ParseInputs ==
  {ParseInput("parse_edqm_table", b) : b \in EdqmPages(1, ParseRows)}
    \cup {ParseInput("parse_cdsco_table", b) : b \in CdscoPages(1, ParseRows)}
    \cup {ParseInput("parse_fda_letters", b) :
             b \in FdaPages(1, ParseRows) \ {NotJson}}

InitParse == \E input \in ParseInputs : Alone("parse", input)

ParseEdqm ==
  /\ pc = "parse" /\ upstream.parser = "parse_edqm_table"
  /\ returned' = parse_edqm_table(upstream.body)
  /\ pc' = "parsed"
  /\ UNCHANGED <<upstream, rest>>

ParseCdsco ==
  /\ pc = "parse" /\ upstream.parser = "parse_cdsco_table"
  /\ returned' = parse_cdsco_table(upstream.body)
  /\ pc' = "parsed"
  /\ UNCHANGED <<upstream, rest>>

ParseFda ==
  /\ pc = "parse" /\ upstream.parser = "parse_fda_letters"
  /\ returned' = parse_fda_letters(upstream.body)
  /\ pc' = "parsed"
  /\ UNCHANGED <<upstream, rest>>

NextParse == ParseEdqm \/ ParseCdsco \/ ParseFda

SpecParse == InitParse /\ [][NextParse]_vars

\* the two adapters that window client-side, each against a reachable
\* upstream that answers with a page of up to ParseRows rows
WindowInput(adapter, body) == [adapter |-> adapter, body |-> body]
WindowInputs ==
  {WindowInput("cdsco", b) : b \in CdscoPages(1, ParseRows)}
    \cup {WindowInput("fda", b) : b \in FdaPages(1, ParseRows) \ {NotJson}}

\* a landing page without a challenge
CleanLanding == Landing("resp", 200, FALSE, FALSE, FALSE, FALSE, 0, TRUE)

InitWindow == \E input \in WindowInputs : Alone("check_for_updates", input)

CheckCdscoAlone ==
  /\ pc = "check_for_updates" /\ upstream.adapter = "cdsco"
  /\ returned' = cdsco_check_for_updates(now, days_to_check,
                                         [i \in 1..max_retries |-> Ok(upstream.body)])
  /\ pc' = "checked"
  /\ UNCHANGED <<upstream, rest>>

CheckFdaAlone ==
  /\ pc = "check_for_updates" /\ upstream.adapter = "fda"
  /\ returned' = fda_check_for_updates(now, days_to_check, CleanLanding,
                                       Ok(upstream.body))
  /\ pc' = "checked"
  /\ UNCHANGED <<upstream, rest>>

NextWindow == CheckCdscoAlone \/ CheckFdaAlone

SpecWindow == InitWindow /\ [][NextWindow]_vars

\* consolidate_source_data against any map from source names to a
\* list-shaped package of up to ParseRows records, a single-value package
\* or None
SomeRecord == [issue_date_cep |-> DateStr("ymd", Today)]
SomePackages ==
  {None, Details(DateStr("ymd", Today), "href"), Details(BadDate, "FDA_BASE_URL+href")}
    \cup {Package([i \in 1..n |-> SomeRecord], CDSCO_WC_URL) : n \in 0..ParseRows}
RawResults ==
  UNION {[names -> SomePackages] : names \in SUBSET {"edqm", "cdsco", "fda", "fda_dmf"}}

InitConsolidate == \E raw \in RawResults : Alone("consolidate_source_data", raw)

ConsolidateAlone ==
  /\ pc = "consolidate_source_data"
  /\ returned' = consolidate_source_data(upstream)
  /\ pc' = "consolidated"
  /\ UNCHANGED <<upstream, rest>>

SpecConsolidate == InitConsolidate /\ [][ConsolidateAlone]_vars

\* the challenge solver against any landing response: the salt assignment
\* contains the word public_salt, and a candidates assignment holds at
\* least one candidate
AnyLandings ==
  {Landing("exception", 0, FALSE, FALSE, FALSE, FALSE, 0, FALSE)}
    \cup {l \in [kind : {"resp"}, status : {200, 403, 500}, script : BOOLEAN,
                 saltWord : BOOLEAN, saltMatch : BOOLEAN, candMatch : BOOLEAN,
                 ncand : 0..MaxCandidates, domId : BOOLEAN] :
            /\ l.saltMatch => l.saltWord
            /\ l.candMatch <=> l.ncand # 0}

InitSolve ==
  \E l \in AnyLandings : Alone("_solve_challenge_and_get_session", l)

Solve ==
  /\ pc = "_solve_challenge_and_get_session"
  /\ returned' = _solve_challenge_and_get_session(upstream)
  /\ pc' = "solved"
  /\ UNCHANGED <<upstream, rest>>

SpecSolve == InitSolve /\ [][Solve]_vars

\* the EDQM adapter against any answer of the upstream, for several windows
EdqmInput(days, resp) == [days |-> days, resp |-> resp]
EdqmWindows == {0, 1, DefaultDaysAbsent}
EdqmInputs ==
  {EdqmInput(d, r) :
     d \in EdqmWindows,
     r \in {Fail(k) : k \in FailKinds} \cup {Ok(b) : b \in EdqmPages(1, ParseRows)}}

InitEdqm == \E input \in EdqmInputs : Alone("edqm_check_for_updates", input)

CheckEdqmAlone ==
  /\ pc = "edqm_check_for_updates"
  /\ returned' = edqm_check_for_updates(now, upstream.days, upstream.resp)
  /\ pc' = "checked"
  /\ UNCHANGED <<upstream, rest>>

SpecEdqm == InitEdqm /\ [][CheckEdqmAlone]_vars

\* the manager once the four adapters have returned packages of up to
\* ParseRows records each, about to consolidate; then the run goes on
DatedCdscoPages ==
  {CdscoPage(TRUE, TRUE, r) :
     r \in SeqsUpTo({CdscoRow(CdscoColumns, <<DateStr("ymd", x), TimeWord>>, "href") :
                       x \in SampleDays(1)}, ParseRows)}
DatedFdaPages ==
  {FdaJson("dict_data", r) :
     r \in SeqsUpTo({FdaRow(FdaMinColumns, "attr", DateStr("ymd", x), EmptyDate,
                            TRUE, FALSE) : x \in SampleDays(1)}, ParseRows)}
DatedEdqmPages ==
  {EdqmPage(FALSE, TRUE, FALSE, <<>>),
   EdqmPage(TRUE, FALSE, TRUE, <<EdqmRow(EdqmColumns, DateStr("dmy", Today))>>)}
DatedDmfPage ==
  DmfPage(TRUE, DateStr("ymd", Today), <<Anchor(TextExcel, "relative")>>)

InitAfterSources ==
  /\ pc = "consolidate"
  /\ days_env = DaysInt(1)
  /\ recipients_env = EnvText(<<"a">>)
  /\ now \in Nows
  /\ days_to_check = ResolveDays(days_env)
  /\ recipient_list = ParseRecipients(recipients_env.text)
  /\ \E pe \in DatedEdqmPages, pcd \in DatedCdscoPages, pf \in DatedFdaPages :
       LET did ==
             [edqm |-> edqm_check_for_updates(now, days_to_check, Ok(pe)),
              cdsco |-> cdsco_check_for_updates(now, days_to_check,
                                                [i \in 1..max_retries |-> Ok(pcd)]),
              fda |-> fda_check_for_updates(now, days_to_check, CleanLanding, Ok(pf)),
              fda_dmf |-> check_dmf_details(CleanLanding, Ok(DatedDmfPage))]
       IN /\ returned = [a \in DOMAIN did |-> did[a].pkg]
          /\ raw_results = returned
          /\ stages = [a \in DOMAIN did |-> did[a].stages]
          /\ retry = [attempts |-> did["fda_dmf"].attempts,
                      sleeps |-> did["fda_dmf"].sleeps]
          /\ upstream =
               [a \in DOMAIN did |->
                  IF a = "fda_dmf" THEN DmfIo(CleanLanding, Ok(DatedDmfPage))
                  ELSE Io(IF a = "fda" THEN CleanLanding.kind ELSE "none", "ok")]
  /\ calls = SourceOrder
  /\ consolidated_report = None
  /\ email_package = None
  /\ notification_sent = "none"
  /\ outbox = <<>>
  /\ result = "none"

SpecAfterSources == (Init \/ InitAfterSources) /\ [][Next]_vars

\* ============================================================ properties
Adapters == {"edqm", "cdsco", "fda", "fda_dmf"}
ListSources == {"edqm", "cdsco", "fda"}
Downstream == {"consolidator", "html_generator", "send_email"}

\* the adapters invoked so far, in order of invocation
AdapterCalls == SelectSeqOrd(calls, Adapters)

IsPackage(v) == v.tag \in {"pkg", "details"}
Called(name) == name \in DOMAIN returned
Succeeded(name) == Called(name) /\ IsPackage(returned[name])
AllSucceeded == \A a \in Adapters : Succeeded(a)
Invoked(c) == \E i \in 1..Len(calls) : calls[i] = c
Unreachable(name) ==
  upstream[name].landing = "exception" \/ upstream[name].data \in FailKinds

\* C1: the adapters are invoked one at a time in the order EDQM, CDSCO, FDA
\* warning letters, FDA DMF, and once the k-th of them has returned None no
\* later one is invoked and the run has returned False.
C1_FixedOrderHaltOnFailure ==
  /\ \E n \in 0..Len(SourceOrder) : AdapterCalls = SubSeq(SourceOrder, 1, n)
  /\ \A k \in 1..Len(SourceOrder) :
       (Called(SourceOrder[k]) /\ returned[SourceOrder[k]] = None)
         => /\ Len(AdapterCalls) = k
            /\ pc = "done"
            /\ result = "False"

C1_Witness ==
  /\ pc = "done"
  /\ Called("cdsco") /\ returned["cdsco"] = None
  /\ calls = <<"edqm", "cdsco">>

\* C2: send_email is invoked only after all four adapters returned a package
\* and the consolidator and the HTML generator succeeded; once an adapter has
\* returned None, neither the consolidator nor the HTML generator nor
\* send_email is invoked.
C2_SendOnlyAfterAllSucceeded ==
  /\ Invoked("send_email")
       => /\ AllSucceeded
          /\ \A a \in Adapters : a \in DOMAIN raw_results
          /\ consolidated_report # None
          /\ email_package.tag = "email"
  /\ (\E a \in Adapters : Called(a) /\ returned[a] = None)
       => \A c \in Downstream : ~Invoked(c)

C2_Witness == Invoked("send_email") /\ Len(outbox) = 1 /\ AllSucceeded

\* C3: an adapter whose upstream was unreachable (timeout, connection error
\* or non-2xx status on the landing or the data request) returned None, and
\* an adapter returned a package with an empty data list only after a data
\* response that was fetched and parsed successfully.
C3_UnreachableIsFailureNotEmpty ==
  \A a \in Adapters :
    Called(a) =>
      /\ Unreachable(a) => (returned[a] = None /\ a \notin DOMAIN raw_results)
      /\ (returned[a].tag = "pkg" /\ returned[a].data = <<>>)
           => /\ upstream[a].data = "ok"
              /\ \E i \in 1..Len(stages[a]) : stages[a][i] = St("fetch", "ok")
              /\ \E i \in 1..Len(stages[a]) : stages[a][i] = St("parse", "ok")

C3_Witness ==
  /\ Called("fda") /\ upstream["fda"].data = "timeout" /\ returned["fda"] = None
  /\ returned["edqm"].data = <<>>

\* the stages of an adapter, in the order the claim gives them
StageOrder(a) ==
  IF a \in {"fda", "fda_dmf"} THEN <<"solve", "fetch", "parse", "filter">>
  ELSE <<"fetch", "parse", "filter">>

\* C4: the stages an adapter ran are an initial part of solve (where
\* present), fetch, parse, filter; a stage that yielded Failure is the last
\* one run and the adapter returned None; an adapter that returned a package
\* ran no stage that failed.
C4_StageFailureShortCircuits ==
  \A a \in Adapters :
    Called(a) =>
      /\ Len(stages[a]) <= Len(StageOrder(a))
      /\ \A i \in 1..Len(stages[a]) : stages[a][i].stage = StageOrder(a)[i]
      /\ \A i \in 1..Len(stages[a]) :
           stages[a][i].outcome = "Failure"
             => i = Len(stages[a]) /\ returned[a] = None
      /\ IsPackage(returned[a])
           => \A i \in 1..Len(stages[a]) : stages[a][i].outcome = "ok"

C4_Witness ==
  /\ Called("cdsco")
  /\ stages["cdsco"] = <<St("fetch", "ok"), St("parse", "Failure")>>
  /\ returned["cdsco"] = None

\* the primary date of a record of a list source
PrimaryDate(a, rec) == rec[DateKey(a)]
InWindow(a, rec) ==
  /\ PrimaryDate(a, rec) # None
  /\ Strptime(PrimaryDate(a, rec), "ymd").ok
  /\ Strptime(PrimaryDate(a, rec), "ymd").day >= now.day - days_to_check

\* C5: every record in the data list of a package returned by EDQM, CDSCO or
\* FDA warning letters has a primary date that parses and is on or after
\* today - days_to_check.
C5_PackageRecordsInWindow ==
  \A a \in ListSources :
    Succeeded(a) =>
      \A i \in 1..Len(returned[a].data) : InWindow(a, returned[a].data[i])

\* C6: the date-window filter never raises: an adapter that reached its
\* filter stage returned a package, whatever the dates of the parsed records.
C6_FilterNeverRaises ==
  \A a \in ListSources :
    Called(a) =>
      /\ returned[a] # Raised
      /\ \A i \in 1..Len(stages[a]) :
           stages[a][i].stage = "filter"
             => stages[a][i].outcome = "ok" /\ returned[a].tag = "pkg"

\* RECIPIENT_EMAILS holds nothing but commas and whitespace (or nothing)
OnlyCommasAndSpace(text) == \A i \in 1..Len(text) : text[i] \in {",", " "}
NoRecipients ==
  recipients_env = None \/ OnlyCommasAndSpace(recipients_env.text)

\* C7: when RECIPIENT_EMAILS is unset, empty or made of commas and
\* whitespace only, the run returns False without invoking an adapter, the
\* consolidator, the HTML generator or send_email.
C7_NoRecipientsNoActivity ==
  (NoRecipients /\ pc # "start")
    => /\ pc = "done"
       /\ result = "False"
       /\ calls = <<>>
       /\ outbox = <<>>

C7_Witness ==
  /\ pc = "done"
  /\ recipients_env = EnvText(<<" ", ",", " ", ",">>)
  /\ result = "False"

\* C8: after all four adapters succeeded the run returns True exactly when
\* the consolidator returned a report, the HTML generator returned a package
\* and send_email returned true; when a stage fails the stages after it are
\* not invoked and the run returns False.
C8_DownstreamDecidesResult ==
  (AllSucceeded /\ pc = "done")
    => /\ result = "True"
            <=> /\ consolidated_report # None
                /\ email_package # None /\ email_package.tag = "email"
                /\ notification_sent = "True"
       /\ consolidated_report = None
            => ~Invoked("html_generator") /\ ~Invoked("send_email")
       /\ (email_package = None \/ email_package.tag # "email")
            => ~Invoked("send_email")
       /\ result # "True" => result = "False"

\* a run in which the three list sources returned no record and the DMF
\* source a date that parses
AllEmpty ==
  /\ \A a \in ListSources : Succeeded(a) /\ returned[a].data = <<>>
  /\ Succeeded("fda_dmf")
  /\ Strptime(returned["fda_dmf"].update_date, "ymd").ok

\* C9: when all three list sources return zero records and the DMF source a
\* valid date the run does not halt: the report has total_updates 0, the
\* HTML generator produces a 'No Updates' package, send_email is invoked
\* with it, and the run returns True if the send succeeds.
C9_EmptyRunStillNotifies ==
  (AllEmpty /\ pc = "done")
    => /\ consolidated_report # None
       /\ consolidated_report.total_updates = 0
       /\ email_package # None
       /\ email_package.tag = "email"
       /\ email_package.subject.kind = "No Updates"
       /\ Invoked("send_email")
       /\ notification_sent = "True" => result = "True"
       /\ notification_sent = "True"
            => outbox = <<[subject |-> email_package.subject, to |-> recipient_list]>>

C9_Witness ==
  AllEmpty /\ pc = "done" /\ result = "True" /\ Len(outbox) = 1

\* C10: a well-formed EDQM row whose issue date is no DD/MM/YYYY date is not
\* in the package the EDQM adapter returns, and no stage of the run raises
\* because of it.
C10_UnparsableEdqmRowHarmless ==
  Succeeded("edqm") =>
    /\ \A i \in 1..Len(returned["edqm"].data) :
         ~DateUnparsable(returned["edqm"].data[i].issue_date_cep)
    /\ email_package # Raised

\* the first attempt the upstream answers with a body (0: none does)
FirstOk(answers) ==
  IF \E i \in 1..max_retries : answers[i].kind = "ok"
  THEN CHOOSE i \in 1..max_retries :
         /\ answers[i].kind = "ok"
         /\ \A j \in 1..(i - 1) : answers[j].kind # "ok"
  ELSE 0

\* C11: one fetch_cdsco_html issues at most max_retries attempts, returns
\* the body of the first successful attempt without a further attempt,
\* sleeps backoff_factor * n after failed attempt n only when another
\* attempt follows, returns None after the last failed attempt, and its
\* total sleep is the sum of the backoff intervals of the retries taken.
C11_BoundedLinearBackoff ==
  pc = "fetched" =>
    LET f == returned
        first == FirstOk(upstream)
    IN /\ f.attempts \in 1..max_retries
       /\ first # 0 => f.attempts = first /\ f.text = upstream[first].body
       /\ first = 0 => f.attempts = max_retries /\ f.text = None
       /\ f.sleeps = [n \in 1..(f.attempts - 1) |-> backoff_factor * n]
       /\ \A n \in 1..Len(f.sleeps) : upstream[n].kind # "ok"
       /\ SumSeq(f.sleeps)
            = backoff_factor * (((f.attempts - 1) * f.attempts) \div 2)

C11_Witness ==
  /\ pc = "fetched"
  /\ upstream[1].kind = "timeout" /\ upstream[2].kind = "ok"
  /\ upstream[3].kind = "http"
  /\ returned.attempts = 2 /\ returned.sleeps = <<backoff_factor>>

\* the adapter invoked last
LastAdapter == AdapterCalls[Len(AdapterCalls)]

\* C12: an adapter returns None for a transport error (timeout, connection
\* error, non-2xx status) on its data fetch only after max_retries attempts,
\* each failed attempt but the last followed by a backoff sleep.
C12_TransportErrorIsRetried ==
  (AdapterCalls # <<>> /\ upstream[LastAdapter].data \in FailKinds)
    => /\ returned[LastAdapter] = None
       /\ retry.attempts = max_retries
       /\ Len(retry.sleeps) = max_retries - 1

\* the container a parser looks for is in the body: the results table for
\* EDQM and CDSCO, the array of rows for the FDA feed
ContainerPresent(input) ==
  /\ input.body # EmptyBody
  /\ IF input.parser = "parse_fda_letters"
     THEN input.body.shape \in {"list", "dict_data"}
     ELSE input.body.table

\* C13: a parser returns None, not an empty list, when the container it
\* looks for is absent from the body, and an empty list only when the
\* container is present.
C13_AbsentContainerIsFailure ==
  pc = "parsed" =>
    /\ ~ContainerPresent(upstream) => returned = None
    /\ returned = List(<<>>) => ContainerPresent(upstream)

\* how often a collaborator was invoked, and how often an adapter ran a stage
TimesInvoked(c) == Cardinality({i \in 1..Len(calls) : calls[i] = c})
TimesRun(a, stage) ==
  Cardinality({i \in 1..Len(stages[a]) : stages[a][i].stage = stage})

\* C14: in one run each adapter is invoked at most once; an invoked FDA
\* adapter ran the challenge solver exactly once, and nothing after it when
\* it failed; an adapter whose parse failed ran its fetch and its parse once
\* and issued no request after the one that succeeded.
C14_NoRetryAboveTransport ==
  /\ \A a \in Adapters : TimesInvoked(a) <= 1
  /\ \A a \in Adapters \cap {"fda", "fda_dmf"} :
       Called(a) =>
         /\ TimesRun(a, "solve") = 1
         /\ stages[a][1] = St("solve", "Failure") => Len(stages[a]) = 1
  /\ \A a \in Adapters :
       (Called(a) /\ \E i \in 1..Len(stages[a]) : stages[a][i] = St("parse", "Failure"))
         => /\ TimesRun(a, "fetch") = 1
            /\ TimesRun(a, "parse") = 1
            /\ returned[a] = None
            /\ a = LastAdapter /\ retry.attempts = Len(retry.sleeps) + 1

C14_Witness ==
  /\ pc = "done"
  /\ calls = <<"edqm", "cdsco", "fda">>
  /\ stages["fda"] = <<St("solve", "Failure")>>
  /\ upstream["fda"].landing = "resp"

\* the URLs an adapter may have requested to obtain its records
RequestedUrls(a) ==
  CASE a = "edqm" -> {EdqmUrl(now, days_to_check)}
    [] a = "cdsco" -> {CDSCO_WC_URL}
    [] OTHER -> {FdaAjaxUrl(now, _extract_view_dom_id(l)) : l \in Landings}

\* C15: the source_url of a package returned by EDQM, CDSCO or FDA warning
\* letters is the URL the adapter requested to obtain the records, query
\* parameters included.
C15_SourceUrlIsRequestedUrl ==
  \A a \in ListSources :
    Succeeded(a) => returned[a].source_url \in RequestedUrls(a)

\* a package is list-shaped ({data, source_url}) or single-value-shaped
\* ({update_date, ...})
ListShaped(v) == v.tag = "pkg"
SingleValueShaped(v) == v.tag = "details"

\* C16 as stated: the keys of the aggregated result map are among edqm,
\* cdsco, fda, dmf at every point of a run, and the map handed to the
\* consolidator has exactly these four keys, edqm, cdsco and fda bound to a
\* list-shaped package and dmf to a single-value-shaped one.
C16_KeysAreEdqmCdscoFdaDmf ==
  /\ DOMAIN raw_results \subseteq {"edqm", "cdsco", "fda", "dmf"}
  /\ Invoked("consolidator")
       => /\ DOMAIN raw_results = {"edqm", "cdsco", "fda", "dmf"}
          /\ \A k \in ListSources : ListShaped(raw_results[k])
          /\ SingleValueShaped(raw_results["dmf"])

\* C16 as amended: the same with the key fda_dmf in place of dmf.
C16_KeysAreEdqmCdscoFdaFdaDmf ==
  /\ DOMAIN raw_results \subseteq {"edqm", "cdsco", "fda", "fda_dmf"}
  /\ Invoked("consolidator")
       => /\ DOMAIN raw_results = {"edqm", "cdsco", "fda", "fda_dmf"}
          /\ \A k \in ListSources : ListShaped(raw_results[k])
          /\ SingleValueShaped(raw_results["fda_dmf"])

C16_Witness ==
  /\ Invoked("consolidator")
  /\ "fda_dmf" \in DOMAIN raw_results
  /\ raw_results["fda_dmf"].update_date = DateStr("ymd", Today)

\* C17: the window of a run is DAYS_TO_CHECK when it is an integer, and
\* otherwise one default: the value a run uses when DAYS_TO_CHECK is not an
\* integer is the value a run uses when it is absent.
C17_OneDefaultWindow ==
  pc # "start" =>
    /\ days_env.kind = "int" => days_to_check = days_env.val
    /\ days_env.kind # "int" => days_to_check = ResolveDays(DaysUnset)

\* DAYS_TO_CHECK is set and is no positive integer
InvalidWindow ==
  days_env.kind = "junk" \/ (days_env.kind = "int" /\ days_env.val <= 0)

ParsedBy(adapter, body) ==
  IF adapter = "cdsco" THEN parse_cdsco_table(body) ELSE parse_fda_letters(body)

\* a record's date parses and is on or after the day today - days
OnOrAfterCutoff(adapter, rec, days) ==
  /\ rec[DateKey(adapter)] # None
  /\ rec[DateKey(adapter)].fmt = "ymd"
  /\ rec[DateKey(adapter)].day >= now.day - days

RECURSIVE Recent(_, _, _)
\* the records on or after the cutoff, in the order parsed
Recent(adapter, records, days) ==
  IF records = <<>> THEN <<>>
  ELSE IF OnOrAfterCutoff(adapter, Head(records), days)
       THEN <<Head(records)>> \o Recent(adapter, Tail(records), days)
       ELSE Recent(adapter, Tail(records), days)

\* C19: for CDSCO and FDA warning letters, every parsed record whose date
\* parses and is on or after today - days_to_check (the cutoff day
\* included) is in the returned data list, in the order parsed.
C19_WindowCompleteInclusive ==
  (pc = "checked" /\ ParsedBy(upstream.adapter, upstream.body) # None)
    => /\ returned.pkg # None /\ returned.pkg.tag = "pkg"
       /\ returned.pkg.data
            = Recent(upstream.adapter,
                     ParsedBy(upstream.adapter, upstream.body).rows, days_to_check)

RECURSIVE DataTotal(_, _)
\* the number of records in the list-shaped packages bound to names
DataTotal(raw, names) ==
  IF names = {} THEN 0
  ELSE LET k == CHOOSE x \in names : TRUE IN
       (IF ListShaped(raw[k]) THEN Len(raw[k].data) ELSE 0)
         + DataTotal(raw, names \ {k})

\* C20: every list-shaped package is in the report with its data, its
\* source_url and update_count equal to the length of its data, every
\* single-value package is in the report unchanged, and total_updates is the
\* sum of the update_count of the list-shaped packages.
C20_ConsolidatesBothShapes ==
  pc = "consolidated" =>
    /\ returned.tag = "report"
    /\ \A k \in DOMAIN upstream :
         /\ ListShaped(upstream[k])
              => /\ k \in DOMAIN returned.sources
                 /\ returned.sources[k].updates = upstream[k].data
                 /\ returned.sources[k].source_url = upstream[k].source_url
                 /\ returned.sources[k].update_count = Len(upstream[k].data)
         /\ SingleValueShaped(upstream[k])
              => /\ k \in DOMAIN returned.sources
                 /\ returned.sources[k] = upstream[k]
    /\ returned.total_updates = DataTotal(upstream, DOMAIN upstream)

C20_Witness ==
  /\ pc = "consolidated"
  /\ DOMAIN upstream = {"edqm", "cdsco", "fda", "fda_dmf"}
  /\ SingleValueShaped(upstream["fda_dmf"])
  /\ ListShaped(upstream["edqm"]) /\ ListShaped(upstream["fda"])
  /\ returned.total_updates = 3

\* the solver took its "challenge detected" branch: the response was not
\* accepted as unchallenged and holds one of the two challenge markers
ChallengeDetected(l) ==
  /\ l.kind = "resp"
  /\ ~(l.status = 200 /\ ~l.script)
  /\ (l.script \/ l.saltWord)

BothCookies == {"authorization_1", "authorization_2"}

\* C21: the solver ends with an unchallenged session without authorization
\* cookie, with a session carrying both authorization cookies, or with None,
\* never with a session carrying one cookie; when a challenge is detected
\* and the salt assignment, the candidates assignment or the second
\* candidate is missing, it ends with None.
C21_NeverPartiallyAuthorized ==
  pc = "solved" =>
    /\ \/ returned = None
       \/ returned.tag = "session" /\ DOMAIN returned.cookies = {}
       \/ returned.tag = "session" /\ DOMAIN returned.cookies = BothCookies
    /\ (/\ ChallengeDetected(upstream)
        /\ (~upstream.saltMatch \/ ~upstream.candMatch \/ upstream.ncand < 2))
         => returned = None

C21_Witness ==
  /\ pc = "solved"
  /\ ChallengeDetected(upstream)
  /\ upstream.saltMatch /\ upstream.candMatch /\ upstream.ncand = 1
  /\ returned = None

\* C30: when the landing page holds the script reference or the word
\* public_salt, the solver returns a session carrying both authorization
\* cookies or None, whatever the status of the response.
C30_MarkerNeverUnchallenged ==
  (pc = "solved" /\ upstream.kind = "resp"
     /\ (upstream.script \/ upstream.saltWord))
    => \/ returned = None
       \/ returned.tag = "session" /\ DOMAIN returned.cookies = BothCookies

\* what a table parser makes of a body
Parse(parser, body) ==
  CASE parser = "parse_edqm_table" -> parse_edqm_table(body)
    [] parser = "parse_cdsco_table" -> parse_cdsco_table(body)
    [] OTHER -> parse_fda_letters(body)

\* the body holds the table (the array) and its rows
HoldsTable(input) ==
  /\ input.body # EmptyBody
  /\ IF input.parser = "parse_fda_letters"
     THEN input.body.shape \in {"list", "dict_data"}
     ELSE input.body.table /\ input.body.tbody

\* a row that cannot be turned into a record: wrong cell count, an anchor
\* without href, a fragment that does not parse
Malformed(parser, row) ==
  CASE parser = "parse_edqm_table" -> row.ncells # EdqmColumns
    [] parser = "parse_cdsco_table" -> row.ncells # CdscoColumns \/ row.link = "nohref"
    [] OTHER -> row.cols < FdaMinColumns \/ row.broken

RECURSIVE WithoutMalformed(_, _)
WithoutMalformed(parser, rows) ==
  IF rows = <<>> THEN <<>>
  ELSE IF Malformed(parser, Head(rows)) THEN WithoutMalformed(parser, Tail(rows))
       ELSE <<Head(rows)>> \o WithoutMalformed(parser, Tail(rows))

\* C22: a malformed row in a table never makes the parser return None: the
\* parser returns what it returns for the table without its malformed rows.
C22_MalformedRowIsSkipped ==
  (pc = "parsed" /\ HoldsTable(upstream))
    => /\ returned # None
       /\ returned
            = Parse(upstream.parser,
                    [upstream.body EXCEPT
                       !.rows = WithoutMalformed(upstream.parser, @)])

\* a row of the FDA feed without the <time datetime> marker of the posted
\* date, or without the anchor of the company name
Unmarked(row) == row.time # "attr" \/ ~row.link

RECURSIVE WithoutUnmarked(_)
WithoutUnmarked(rows) ==
  IF rows = <<>> THEN <<>>
  ELSE IF Unmarked(Head(rows)) THEN WithoutUnmarked(Tail(rows))
       ELSE <<Head(rows)>> \o WithoutUnmarked(Tail(rows))

\* C23 as stated: a row without the timestamp marker or without the link
\* element is skipped: the parser's output and the adapter's package are
\* those of the feed without such rows.
C23_UnmarkedRowIsSkipped ==
  (pc = "checked" /\ upstream.adapter = "fda")
    => LET kept == [upstream.body EXCEPT !.rows = WithoutUnmarked(@)] IN
       /\ parse_fda_letters(upstream.body) = parse_fda_letters(kept)
       /\ returned.pkg
            = fda_check_for_updates(now, days_to_check, CleanLanding, Ok(kept)).pkg

\* the posted date and the letter URL the record of a row is to carry
PostedDateOf(row) ==
  IF row.time = "attr" THEN row.datetime
  ELSE IF row.text.fmt = "mdy" THEN DateStr("ymd", row.text.day) ELSE None
LetterUrlOf(row) == IF row.link THEN "FDA_BASE_URL+href" ELSE "None"

\* C23 as amended: a row without the timestamp marker or without the link
\* element is kept: its record carries the date of the cell's MM/DD/YYYY
\* text (None when the text is no such date) and no letter URL when the
\* link is missing; the record is in the package exactly when that date is
\* in the window, and the adapter fails on no such row.
C23_UnmarkedRowIsKept ==
  (pc = "checked" /\ upstream.adapter = "fda")
    => LET rows == IF upstream.body.shape = "dict_nodata" THEN <<>>
                   ELSE WithoutMalformed("parse_fda_letters", upstream.body.rows)
           parsed == parse_fda_letters(upstream.body).rows
       IN /\ Len(parsed) = Len(rows)
          /\ \A i \in 1..Len(rows) :
               Unmarked(rows[i])
                 => /\ parsed[i].posted_date = PostedDateOf(rows[i])
                    /\ parsed[i].letter_url = LetterUrlOf(rows[i])
          /\ returned.pkg # None
          /\ returned.pkg = Raised
               => \E i \in 1..Len(rows) :
                    /\ rows[i].time = "attr"
                    /\ rows[i].datetime.fmt \notin {"ymd", "empty"}
          /\ returned.pkg # Raised
               => returned.pkg.data = Recent("fda", parsed, days_to_check)

C23_Witness ==
  /\ pc = "checked" /\ upstream.adapter = "fda"
  /\ upstream.body.shape = "dict_data"
  /\ Len(upstream.body.rows) = 2
  /\ upstream.body.rows[1].time = "none" /\ upstream.body.rows[1].link
  /\ upstream.body.rows[2].time = "attr" /\ ~upstream.body.rows[2].link
  /\ returned.pkg.tag = "pkg"
  /\ Len(returned.pkg.data) = 2
  /\ returned.pkg.data[2].letter_url = "None"

\* C24: a 2xx response of the FDA AJAX endpoint whose body does not decode
\* as JSON makes the FDA adapter return None, never a package; the run
\* halts there.
C24_UndecodableJsonIsFailure ==
  (Called("fda") /\ upstream["fda"].data = "undecodable")
    => /\ returned["fda"] = None
       /\ "fda" \notin DOMAIN raw_results
       /\ stages["fda"] = <<St("solve", "ok"), St("fetch", "Failure")>>
       /\ pc = "done" /\ result = "False"

C24_Witness ==
  /\ Called("fda") /\ upstream["fda"].data = "undecodable"
  /\ upstream["fda"].landing = "resp"
  /\ returned["fda"] = None

\* the body was fetched and holds no results table
NoResultsTable(resp) ==
  resp.kind = "ok" /\ resp.body # EmptyBody /\ ~resp.body.table

\* C25: when the results table is missing, parse_edqm_table returns an empty
\* list if the zero-results text is in the body and None otherwise; the
\* EDQM adapter returns a package without records in the first case and
\* None in the second.
C25_NoDataIsNotPageBroken ==
  (pc = "checked" /\ NoResultsTable(upstream.resp))
    => IF upstream.resp.body.noResults
       THEN /\ returned.stages = <<St("fetch", "ok"), St("parse", "ok")>>
            /\ returned.pkg.tag = "pkg"
            /\ returned.pkg.data = <<>>
       ELSE /\ returned.stages = <<St("fetch", "ok"), St("parse", "Failure")>>
            /\ returned.pkg = None

C25_Witness ==
  /\ pc = "checked"
  /\ NoResultsTable(upstream.resp) /\ upstream.resp.body.noResults
  /\ returned.pkg = Package(<<>>, EdqmUrl(now, upstream.days))

\* the page shows the update date
DateMarkerFound(page) == page # EmptyBody /\ page.time

\* the page holds a download link with the keyword in its text, in any case
DownloadLinkFound(page) ==
  /\ page # EmptyBody
  /\ \E i \in 1..Len(page.anchors) :
       /\ HasKeyword(page.anchors[i])
       /\ page.anchors[i].href \in {"relative", "absolute"}

\* C26: check_dmf_details returns a package only when the page showed both
\* the update-date marker and a download link whose text holds the keyword
\* in any case; the package then holds update_date and download_url; when
\* either is missing it returns None, and a None halts the run with False.
C26_DmfHasNoValidEmptyState ==
  Called("fda_dmf") =>
    LET page == upstream["fda_dmf"].page
        details == returned["fda_dmf"]
    IN /\ details # None
            => /\ upstream["fda_dmf"].data = "ok"
               /\ DateMarkerFound(page) /\ DownloadLinkFound(page)
               /\ details.tag = "details"
               /\ details.update_date = page.datetime
               /\ details.download_url \in {"href", "FDA_BASE_URL+href"}
       /\ (~DateMarkerFound(page) \/ ~DownloadLinkFound(page)) => details = None
       /\ details = None
            => /\ pc = "done" /\ result = "False"
               /\ "fda_dmf" \notin DOMAIN raw_results

\* a page with the date but no keyworded link was served, and the run halted
C26_Witness ==
  /\ Called("fda_dmf")
  /\ upstream["fda_dmf"].data = "ok"
  /\ DateMarkerFound(upstream["fda_dmf"].page)
  /\ ~DownloadLinkFound(upstream["fda_dmf"].page)
  /\ returned["fda_dmf"] = None /\ pc = "done" /\ result = "False"

\* C27: raw_results holds one entry per adapter that returned a package, the
\* package as the adapter returned it; the consolidator is invoked at most
\* once, and only when all four adapters have returned a package; after the
\* consolidator and generate_html_report have run every package still has
\* the same records in the same order as when its adapter returned it.
C27_AggregateMapIsReadOnly ==
  /\ DOMAIN raw_results = {a \in Adapters : Succeeded(a)}
  /\ \A a \in DOMAIN raw_results : raw_results[a] = returned[a]
  /\ TimesInvoked("consolidator") <= 1
  /\ Invoked("consolidator") => (AllSucceeded /\ DOMAIN raw_results = Adapters)

\* a report whose CDSCO records were put in another order for the email,
\* while raw_results kept the order of the adapter
C27_Witness ==
  /\ Invoked("html_generator") /\ email_package.tag = "email"
  /\ Len(raw_results["cdsco"].data) = 2
  /\ consolidated_report.sources["cdsco"].updates # raw_results["cdsco"].data
  /\ raw_results["cdsco"].data = returned["cdsco"].data

\* C29: run_all_checks_and_notify is total: whatever the upstreams answer
\* and whatever the adapters and the downstream stages do, a run that has
\* ended has returned True or False, and no exception has left it.
C29_RunIsTotal ==
  pc = "done" => result \in {"True", "False"}

====
